---- MODULE Spec2Model ----
(***************************************************************************)
(* A model of notify-icon-rs (src/src/lib.rs): the NotifyIcon builder over *)
(* a NOTIFYICONDATAW record and its five dispatch operations, which hand   *)
(* the record to Shell_NotifyIconW.                                        *)
(*                                                                         *)
(* data is the record the caller currently holds (each builder call        *)
(* consumes it and returns the next one).  calls is the sequence of        *)
(* builder calls made since new().  slots and lastError are the shell's    *)
(* side of the boundary: the live tray slots and the thread's last error   *)
(* code.  boundaryCalls lists the boundary calls made by the operation     *)
(* just performed (with what the shell answered); when that operation was  *)
(* a dispatch, lastOp names it and result is what it returned.             *)
(***************************************************************************)
EXTENDS Integers, Sequences, FiniteSets, TLC

VARIABLES data, calls, slots, lastError, boundaryCalls, result, lastOp

vars == <<data, calls, slots, lastError, boundaryCalls, result, lastOp>>

(***************************************************************************)
(* Bounds of the model.                                                    *)
(***************************************************************************)
\* Builder calls made on one record.
MaxCalls == 3
\* Builder calls made on one record in the specification with dispatch.
MaxBuild == 2
\* Code points of the longest tooltip text tried.
MaxTextLen == 200

(***************************************************************************)
(* Program constants (windows crate values imported by lib.rs).            *)
(***************************************************************************)
NIF_MESSAGE == 1
NIF_ICON == 2
NIF_TIP == 4
NIF_STATE == 8
NIF_INFO == 16
NIF_GUID == 32
NIF_REALTIME == 64
NIF_SHOWTIP == 128

NIM_ADD == 0
NIM_MODIFY == 1
NIM_DELETE == 2
NIM_SETFOCUS == 3
NIM_SETVERSION == 4

\* Win32 BOOL FALSE.
FALSE_ == 0
\* szTip: [u16; 128] in NOTIFYICONDATAW.
SzTipLen == 128
\* size_of::<NOTIFYICONDATAW>() on a 64-bit build.
SizeOfNOTIFYICONDATAW == 976

AllBits == {NIF_MESSAGE, NIF_ICON, NIF_TIP, NIF_STATE, NIF_INFO, NIF_GUID,
            NIF_REALTIME, NIF_SHOWTIP}

(***************************************************************************)
(* Bit operations on NOTIFY_ICON_DATA_FLAGS (u32).                         *)
(***************************************************************************)
RECURSIVE BitOr(_, _)
BitOr(a, b) ==
    IF a = 0 THEN b
    ELSE IF b = 0 THEN a
    ELSE (IF a % 2 = 1 \/ b % 2 = 1 THEN 1 ELSE 0) + 2 * BitOr(a \div 2, b \div 2)

\* Whether the single bit `bit` is set in `flags`.
HasBit(flags, bit) == (flags \div bit) % 2 = 1

\* The bits set in `flags`.
BitsOf(flags) == {b \in AllBits : HasBit(flags, b)}

(***************************************************************************)
(* Texts are sequences of Unicode scalar values; encode_utf16 is           *)
(* str::encode_utf16: one unit below U+10000, a surrogate pair above.      *)
(***************************************************************************)
\* The UTF-16 code units of one scalar value (char::encode_utf16).
encode_utf16_char(c) ==
    IF c < 65536
    THEN <<c>>
    ELSE <<55296 + ((c - 65536) \div 1024), 56320 + ((c - 65536) % 1024)>>

\* The units of every scalar value of s, in order (the text is split in
\* halves to keep the evaluation shallow).
RECURSIVE encode_utf16(_)
encode_utf16(s) ==
    IF s = <<>> THEN <<>>
    ELSE IF Len(s) = 1 THEN encode_utf16_char(s[1])
    ELSE LET mid == Len(s) \div 2
         IN  encode_utf16(SubSeq(s, 1, mid)) \o encode_utf16(SubSeq(s, mid + 1, Len(s)))

Rep(c, n) == [i \in 1..n |-> c]

(***************************************************************************)
(* impl Default for NotifyIcon: zeroed record with cbSize set.             *)
(***************************************************************************)
Default ==
    [cbSize |-> SizeOfNOTIFYICONDATAW,
     hWnd |-> 0,
     uID |-> 0,
     uFlags |-> 0,
     uCallbackMessage |-> 0,
     hIcon |-> 0,
     szTip |-> Rep(0, SzTipLen),
     Anonymous |-> 0,
     guidItem |-> 0,
     hBalloonIcon |-> 0]

\* Mutant of new: the zeroed NOTIFYICONDATAW, cbSize left unset.
new_zeroed == [Default EXCEPT !.cbSize = 0]

new == Default

(***************************************************************************)
(* The builder methods, as functions from the record to the next record.   *)
(***************************************************************************)
\* Mutant of flag: += where the code has |=.
flag_add(self, f) == [self EXCEPT !.uFlags = self.uFlags + f]

flag(self, f) == [self EXCEPT !.uFlags = BitOr(self.uFlags, f)]

\* Mutant of window_handle: the handle is stored and the bit forgotten.
window_handle_noflag(self, handle) == [self EXCEPT !.hWnd = handle]

window_handle(self, handle) == flag([self EXCEPT !.hWnd = handle], NIF_MESSAGE)

\* Mutant of tip: an oversized text fills the whole buffer, with no
\* terminator forced into the last slot.
tip_noterm(self, s) ==
    LET tip_utf16 == encode_utf16(s) \o <<0>>
        szTip == [i \in 1..Len(self.szTip) |->
                     IF i <= Len(tip_utf16) THEN tip_utf16[i] ELSE self.szTip[i]]
    IN  flag([self EXCEPT !.szTip = szTip], BitOr(NIF_TIP, NIF_SHOWTIP))

tip(self, s) ==
    LET tip_utf16 == encode_utf16(s) \o <<0>>
        max_len == Len(self.szTip) - 1
        szTip == IF Len(tip_utf16) <= max_len + 1
                 THEN [i \in 1..Len(self.szTip) |->
                          IF i <= Len(tip_utf16) THEN tip_utf16[i]
                          ELSE self.szTip[i]]
                 ELSE [i \in 1..Len(self.szTip) |->
                          IF i <= max_len THEN tip_utf16[i]
                          ELSE IF i = max_len + 1 THEN 0
                          ELSE self.szTip[i]]
    IN  flag([self EXCEPT !.szTip = szTip], BitOr(NIF_TIP, NIF_SHOWTIP))

icon(self, h) == flag([self EXCEPT !.hIcon = h], NIF_ICON)

\* Mutant of balloon_icon: the balloon (info) bit where the code sets the icon bit.
balloon_icon_info(self, h) == flag([self EXCEPT !.hBalloonIcon = h], NIF_INFO)

balloon_icon(self, h) == flag([self EXCEPT !.hBalloonIcon = h], NIF_ICON)

callback_message(self, callback_msg) ==
    flag([self EXCEPT !.uCallbackMessage = callback_msg], NIF_MESSAGE)

guid(self, g) == flag([self EXCEPT !.guidItem = g], NIF_GUID)

\* Anonymous is the union { uTimeout: u32, uVersion: u32 }: one slot.
(***************************************************************************)
(* Results: windows::core::Result<()>, the error an HRESULT (i32).         *)
(***************************************************************************)
Ok == [kind |-> "Ok", code |-> 0]

\* No dispatch operation has just returned.
NoResult == [kind |-> "none", code |-> 0]

\* HRESULT::from_win32: 0 and negative codes as they are, the others under
\* FACILITY_WIN32 with the failure bit (0x80070000 | code, as an i32).
HRESULT_from_win32(error) ==
    IF error <= 0 THEN error
    ELSE ((error % 65536) + 458752 - 2147483647) - 1

\* Error::from_win32 on a thread whose last error code is lastErr.
Error_from_win32(lastErr) == [kind |-> "Err", code |-> HRESULT_from_win32(lastErr)]

\* Mutant of timeout: the balloon (info) bit is set with the timeout.
timeout_info(self, t) == flag([self EXCEPT !.Anonymous = t], NIF_INFO)

timeout(self, t) == [self EXCEPT !.Anonymous = t]

\* Mutant of version: the version is merged into what the slot holds.
version_merge(self, v) == [self EXCEPT !.Anonymous = BitOr(self.Anonymous, v)]

version(self, v) == [self EXCEPT !.Anonymous = v]

(***************************************************************************)
(* Inputs.                                                                 *)
(***************************************************************************)
FlagArgs == {NIF_ICON, NIF_INFO, BitOr(NIF_MESSAGE, NIF_GUID)}
HWnds == {1, 2}
HIcons == {7}
CallbackMsgs == {1025}
Guids == {9}
Timeouts == {10000, 30000}
Versions == {3, 4}

\* Short texts: empty, plain, with an embedded NUL.
ShortTexts == {<<>>, <<104, 105>>, <<97, 0, 98>>}
\* Texts around the capacity: 126, 127 (fits exactly with the terminator),
\* 128 and MaxTextLen units, and 126 units followed by a surrogate pair.
EdgeTexts == {Rep(120, SzTipLen - 2), Rep(121, SzTipLen - 1), Rep(122, SzTipLen),
              Rep(123, MaxTextLen), Rep(124, SzTipLen - 2) \o <<128512>>}
TipTexts == ShortTexts \cup EdgeTexts

Init ==
    /\ data = new
    /\ calls = <<>>
    /\ slots = {}
    /\ lastError = 0
    /\ boundaryCalls = <<>>
    /\ result = NoResult
    /\ lastOp = "none"

\* A step that is no dispatch: no boundary call, nothing returned.
NoDispatch ==
    /\ boundaryCalls' = <<>>
    /\ result' = NoResult
    /\ lastOp' = "none"
    /\ UNCHANGED <<slots, lastError>>

\* One builder call: the caller's record becomes the returned one.
Build(next, op, arg, text, max) ==
    /\ Len(calls) < max
    /\ data' = next
    /\ calls' = Append(calls, [op |-> op, arg |-> arg, text |-> text])
    /\ NoDispatch

New ==
    /\ calls # <<>>
    /\ data' = new
    /\ calls' = <<>>
    /\ NoDispatch

FlagCall(S, max) == \E b \in S : Build(flag(data, b), "flag", b, <<>>, max)
WindowHandleCall(S, max) ==
    \E h \in S : Build(window_handle(data, h), "window_handle", h, <<>>, max)
TipCall(S, max) == \E t \in S : Build(tip(data, t), "tip", 0, t, max)
IconCall(S, max) == \E h \in S : Build(icon(data, h), "icon", h, <<>>, max)
BalloonIconCall(S, max) ==
    \E h \in S : Build(balloon_icon(data, h), "balloon_icon", h, <<>>, max)
CallbackMessageCall(S, max) ==
    \E m \in S : Build(callback_message(data, m), "callback_message", m, <<>>, max)
GuidCall(S, max) == \E g \in S : Build(guid(data, g), "guid", g, <<>>, max)
TimeoutCall(S, max) == \E t \in S : Build(timeout(data, t), "timeout", t, <<>>, max)
VersionCall(S, max) == \E v \in S : Build(version(data, v), "version", v, <<>>, max)

(***************************************************************************)
(* SpecBuilder: the builder alone (tooltip lengths are SpecTip's matter).  *)
(***************************************************************************)
NextBuilder ==
    \/ New
    \/ FlagCall(FlagArgs, MaxCalls)
    \/ WindowHandleCall(HWnds, MaxCalls)
    \/ TipCall({<<104, 105>>, <<97, 0, 98>>}, MaxCalls)
    \/ IconCall(HIcons, MaxCalls)
    \/ BalloonIconCall(HIcons, MaxCalls)
    \/ CallbackMessageCall(CallbackMsgs, MaxCalls)
    \/ GuidCall(Guids, MaxCalls)
    \/ TimeoutCall(Timeouts, MaxCalls)
    \/ VersionCall(Versions, MaxCalls)

SpecBuilder == Init /\ [][NextBuilder]_vars

(***************************************************************************)
(* SpecTip: tooltip texts of every length class, on fresh and used records.*)
(***************************************************************************)
NextTip ==
    \/ New
    \/ TipCall(TipTexts, MaxCalls)
    \/ FlagCall({NIF_INFO}, MaxCalls)

SpecTip == Init /\ [][NextTip]_vars


(***************************************************************************)
(* The shell side of the boundary call.  The shell owns the tray slots; a  *)
(* record addresses one by its guid (when the guid bit is set) or by its   *)
(* window handle and numeric id.                                           *)
(***************************************************************************)
Identity(d) ==
    IF HasBit(d.uFlags, NIF_GUID)
    THEN [guid |-> d.guidItem, hWnd |-> 0, uID |-> 0]
    ELSE [guid |-> 0, hWnd |-> d.hWnd, uID |-> d.uID]

\* Last-error codes a failing call may leave (0: none set, 1460: ERROR_TIMEOUT).
ShellErrors == {0, 1460}

\* What Shell_NotifyIconW may answer: it may reject any call; it accepts an
\* add of a slot that is not live, and the other operations on a live slot.
ShellOutcomes(message, d, live) ==
    LET id == Identity(d)
        rejected == {[ret |-> FALSE_, slots |-> live, err |-> e] : e \in ShellErrors}
        accepted ==
            IF message = NIM_ADD
            THEN IF id \in live THEN {}
                 ELSE {[ret |-> 1, slots |-> live \cup {id}, err |-> 0]}
            ELSE IF id \notin live THEN {}
            ELSE IF message = NIM_DELETE
            THEN {[ret |-> 1, slots |-> live \ {id}, err |-> 0]}
            ELSE {[ret |-> 1, slots |-> live, err |-> 0]}
    IN  rejected \cup accepted

\* The boundary call as the shell saw it and answered it.
BoundaryCall(message, d, out) ==
    [dwMessage |-> message, lpData |-> d, ret |-> out.ret, err |-> out.err]

(***************************************************************************)
(* NotifyIcon::notify and the five dispatch operations.                    *)
(***************************************************************************)
\* Mutant of notify: success is read from the wrong side of the comparison.
notify_inverted(self, message) ==
    \E out \in ShellOutcomes(message, self, slots) :
       /\ boundaryCalls' = <<BoundaryCall(message, self, out)>>
       /\ slots' = out.slots
       /\ lastError' = IF out.ret # FALSE_ THEN lastError ELSE out.err
       /\ result' = IF out.ret = FALSE_ THEN Ok ELSE Error_from_win32(lastError')
       /\ UNCHANGED <<data, calls>>

\* Mutant of notify: a rejected call is made a second time.
notify_retry(self, message) ==
    \E out \in ShellOutcomes(message, self, slots) :
       IF out.ret # FALSE_
       THEN /\ boundaryCalls' = <<BoundaryCall(message, self, out)>>
            /\ slots' = out.slots
            /\ lastError' = lastError
            /\ result' = Ok
            /\ UNCHANGED <<data, calls>>
       ELSE \E again \in ShellOutcomes(message, self, out.slots) :
            /\ boundaryCalls' = <<BoundaryCall(message, self, out),
                                  BoundaryCall(message, self, again)>>
            /\ slots' = again.slots
            /\ lastError' = IF again.ret # FALSE_ THEN out.err ELSE again.err
            /\ result' = IF again.ret # FALSE_ THEN Ok ELSE Error_from_win32(lastError')
            /\ UNCHANGED <<data, calls>>

notify(self, message) ==
    \E out \in ShellOutcomes(message, self, slots) :
       /\ boundaryCalls' = <<BoundaryCall(message, self, out)>>
       /\ slots' = out.slots
       /\ lastError' = IF out.ret # FALSE_ THEN lastError ELSE out.err
       /\ result' = IF out.ret # FALSE_ THEN Ok ELSE Error_from_win32(lastError')
       /\ UNCHANGED <<data, calls>>

notify_add == lastOp' = "notify_add" /\ notify(data, NIM_ADD)

notify_delete == lastOp' = "notify_delete" /\ notify(data, NIM_DELETE)

notify_modify == lastOp' = "notify_modify" /\ notify(data, NIM_MODIFY)

notify_set_focus == lastOp' = "notify_set_focus" /\ notify(data, NIM_SETFOCUS)

notify_set_version == lastOp' = "notify_set_version" /\ notify(data, NIM_SETVERSION)

(***************************************************************************)
(* Spec: the builder and the dispatch operations together.                 *)
(***************************************************************************)
Next ==
    \/ New
    \/ FlagCall({NIF_INFO}, MaxBuild)
    \/ WindowHandleCall({1}, MaxBuild)
    \/ TipCall({<<104, 105>>}, MaxBuild)
    \/ IconCall(HIcons, MaxBuild)
    \/ BalloonIconCall(HIcons, MaxBuild)
    \/ CallbackMessageCall(CallbackMsgs, MaxBuild)
    \/ GuidCall(Guids, MaxBuild)
    \/ TimeoutCall({10000}, MaxBuild)
    \/ VersionCall({4}, MaxBuild)
    \/ notify_add
    \/ notify_delete
    \/ notify_modify
    \/ notify_set_focus
    \/ notify_set_version

Spec == Init /\ [][Next]_vars

(***************************************************************************)
(* The call sequence, read back.                                           *)
(***************************************************************************)
Last(seq) == seq[Len(seq)]

\* The record a builder call returns.
Apply(r, c) ==
    CASE c.op = "flag" -> flag(r, c.arg)
      [] c.op = "window_handle" -> window_handle(r, c.arg)
      [] c.op = "tip" -> tip(r, c.text)
      [] c.op = "icon" -> icon(r, c.arg)
      [] c.op = "balloon_icon" -> balloon_icon(r, c.arg)
      [] c.op = "callback_message" -> callback_message(r, c.arg)
      [] c.op = "guid" -> guid(r, c.arg)
      [] c.op = "timeout" -> timeout(r, c.arg)
      [] c.op = "version" -> version(r, c.arg)

\* The record new() followed by the calls of seq yields.
RECURSIVE Replay(_)
Replay(seq) ==
    IF seq = <<>> THEN new ELSE Apply(Replay(SubSeq(seq, 1, Len(seq) - 1)), Last(seq))

\* The permutations of 1..n.
Perms(n) == {p \in [1..n -> 1..n] : \A i, j \in 1..n : p[i] = p[j] => i = j}

\* The field a builder call writes ("" for flag, which writes none).
FieldOf(op) ==
    CASE op = "window_handle" -> "hWnd"
      [] op = "tip" -> "szTip"
      [] op = "icon" -> "hIcon"
      [] op = "balloon_icon" -> "hBalloonIcon"
      [] op = "callback_message" -> "uCallbackMessage"
      [] op = "guid" -> "guidItem"
      [] op = "timeout" -> "Anonymous"
      [] op = "version" -> "Anonymous"
      [] OTHER -> ""

\* The fields a validity bit vouches for (none this builder can write for the
\* state, info and realtime bits).
FieldsOfBit(b) ==
    CASE b = NIF_MESSAGE -> {"hWnd", "uCallbackMessage"}
      [] b = NIF_ICON -> {"hIcon", "hBalloonIcon"}
      [] b = NIF_TIP -> {"szTip"}
      [] b = NIF_SHOWTIP -> {"szTip"}
      [] b = NIF_GUID -> {"guidItem"}
      [] OTHER -> {}

\* The fields some call of the sequence wrote.
Written == {FieldOf(calls[i].op) : i \in 1..Len(calls)} \ {""}

\* The bits some flag call of the sequence passed.
Flagged == UNION {BitsOf(calls[i].arg) : i \in {j \in 1..Len(calls) : calls[j].op = "flag"}}

\* Every written field has its bits set.
WrittenImpliesBit ==
    \A b \in AllBits : FieldsOfBit(b) \cap Written # {} => HasBit(data.uFlags, b)

\* C1 as stated: validity_flags and the written fields agree in both
\* directions: every field some call wrote has its bit set, and no bit is set
\* whose field no call wrote.
C1_FlagsAgreeBothWays ==
    /\ WrittenImpliesBit
    /\ \A b \in AllBits : HasBit(data.uFlags, b) => FieldsOfBit(b) \cap Written # {}

\* C1 amended: every field some call wrote has its bit set, and every bit that
\* is set either vouches for a field some call wrote or was passed to flag.
C1_FlagsAgreeUpToFlag ==
    /\ WrittenImpliesBit
    /\ \A b \in AllBits :
          HasBit(data.uFlags, b) => (FieldsOfBit(b) \cap Written # {} \/ b \in Flagged)

\* A field was written, and flag set a bit whose field was not.
C1_Witness ==
    /\ "hWnd" \in Written
    /\ HasBit(data.uFlags, NIF_MESSAGE)
    /\ NIF_INFO \in Flagged
    /\ HasBit(data.uFlags, NIF_INFO)

\* The bits a call is specified to contribute.
Contribution(c) ==
    CASE c.op = "window_handle" -> NIF_MESSAGE
      [] c.op = "callback_message" -> NIF_MESSAGE
      [] c.op = "tip" -> NIF_TIP + NIF_SHOWTIP
      [] c.op = "icon" -> NIF_ICON
      [] c.op = "balloon_icon" -> NIF_ICON
      [] c.op = "guid" -> NIF_GUID
      [] c.op = "flag" -> c.arg
      [] OTHER -> 0

RECURSIVE OrOfContributions(_)
OrOfContributions(seq) ==
    IF seq = <<>> THEN 0
    ELSE BitOr(OrOfContributions(Tail(seq)), Contribution(Head(seq)))

\* C3: validity_flags is exactly the OR of the bits each call of the sequence
\* contributes, every permutation of the sequence yields the same flags, and
\* new().window_handle(h).icon(i) has exactly the message and icon bits.
C3_FlagsAreOrOfContributions ==
    /\ data.uFlags = OrOfContributions(calls)
    /\ \A p \in Perms(Len(calls)) :
          Replay([i \in 1..Len(calls) |-> calls[p[i]]]).uFlags = data.uFlags
    /\ (Len(calls) = 2 /\ calls[1].op = "window_handle" /\ calls[2].op = "icon")
          => data.uFlags = NIF_MESSAGE + NIF_ICON

\* Three calls with overlapping contributions, a balloon icon among them.
C3_Witness ==
    /\ Len(calls) = 3
    /\ {calls[i].op : i \in 1..3} = {"balloon_icon", "flag", "tip"}
    /\ data.uFlags = NIF_ICON + NIF_TIP + NIF_SHOWTIP

\* The positions of the timeout and version calls.
SlotCalls == {i \in 1..Len(calls) : calls[i].op \in {"timeout", "version"}}

\* C4: the shared slot holds the argument of the most recent timeout or
\* version call, zero if there was none.
C4_SlotHoldsLatest ==
    data.Anonymous =
        IF SlotCalls = {} THEN 0
        ELSE calls[CHOOSE i \in SlotCalls : \A j \in SlotCalls : j <= i].arg

\* timeout then version: the version is left, the timeout gone.
C4_Witness ==
    /\ Len(calls) >= 2
    /\ calls[Len(calls) - 1].op = "timeout"
    /\ Last(calls).op = "version"
    /\ data.Anonymous = Last(calls).arg
    /\ data.Anonymous # calls[Len(calls) - 1].arg

\* C8: flag is idempotent: on every reachable record a second flag(b) changes
\* nothing the first one left, and a record built by flag(b).flag(b) equals the
\* one built by flag(b).
C8_FlagIdempotent ==
    /\ \A b \in AllBits \cup FlagArgs : flag(flag(data, b), b) = flag(data, b)
    /\ (Len(calls) >= 2 /\ Last(calls).op = "flag" /\ calls[Len(calls) - 1] = Last(calls))
          => data = Replay(SubSeq(calls, 1, Len(calls) - 1))

\* flag(b).flag(b) was called on a record with other bits set.
C8_Witness ==
    /\ Len(calls) = 3
    /\ calls[1].op = "tip"
    /\ calls[2].op = "flag" /\ calls[2].arg = NIF_MESSAGE + NIF_GUID
    /\ calls[3] = calls[2]
    /\ data.uFlags = NIF_MESSAGE + NIF_TIP + NIF_GUID + NIF_SHOWTIP

\* C9: a timeout or version call changes the shared slot and nothing else of
\* the record: not the flags, the handles, the message id, the guid, the
\* tooltip buffer or the size.
C9_SlotCallsChangeOnlySlot ==
    [][(Len(calls') = Len(calls) + 1 /\ Last(calls').op \in {"timeout", "version"})
          => data' = [data EXCEPT !.Anonymous = Last(calls').arg]]_vars

\* timeout was called on a record with flags, a handle and a tooltip set.
C9_Witness ==
    /\ Len(calls) = 3
    /\ calls[1].op = "window_handle"
    /\ calls[2].op = "tip"
    /\ calls[3].op = "timeout"
    /\ data.uFlags = NIF_MESSAGE + NIF_TIP + NIF_SHOWTIP
    /\ data.Anonymous = calls[3].arg

\* The positions of the tip calls.
TipCalls == {i \in 1..Len(calls) : calls[i].op = "tip"}

\* The text of the most recent tip call.
LatestTipText == calls[CHOOSE i \in TipCalls : \A j \in TipCalls : j <= i].text

\* C2 as stated: after tip(t) on any reachable record, when the encoding of t
\* and its terminator fit the buffer, the buffer is the encoding followed by
\* zeros up to the capacity; otherwise its first capacity - 1 units are those
\* of the encoding and its last slot is zero.
C2_TipBufferIsEncodingZeroPadded ==
    (calls # <<>> /\ Last(calls).op = "tip") =>
        LET enc == encode_utf16(Last(calls).text)
        IN  IF Len(enc) + 1 <= SzTipLen
            THEN data.szTip = enc \o Rep(0, SzTipLen - Len(enc))
            ELSE /\ SubSeq(data.szTip, 1, SzTipLen - 1) = SubSeq(enc, 1, SzTipLen - 1)
                 /\ data.szTip[SzTipLen] = 0

\* C6: the tooltip buffer always has its 128 slots with a zero among them,
\* and its last slot is zero whenever the most recent tip text did not fit.
C6_TipNullTerminated ==
    /\ Len(data.szTip) = SzTipLen
    /\ \E i \in 1..SzTipLen : data.szTip[i] = 0
    /\ (TipCalls # {} /\ Len(encode_utf16(LatestTipText)) + 1 > SzTipLen)
          => data.szTip[SzTipLen] = 0

\* An oversized text was written over an earlier tooltip: the buffer is full
\* up to its last slot, which holds the terminator.
C6_Witness ==
    /\ Len(calls) >= 2
    /\ calls[Len(calls) - 1].op = "tip"
    /\ Last(calls).op = "tip"
    /\ Len(Last(calls).text) = MaxTextLen
    /\ \A i \in 1..(SzTipLen - 1) : data.szTip[i] = Last(calls).text[i]
    /\ data.szTip[SzTipLen] = 0

(***************************************************************************)
(* Dispatch.                                                               *)
(***************************************************************************)
DispatchOps ==
    {"notify_add", "notify_delete", "notify_modify", "notify_set_focus",
     "notify_set_version"}

\* The operation code each dispatch operation stands for.
OpCode(op) ==
    CASE op = "notify_add" -> NIM_ADD
      [] op = "notify_delete" -> NIM_DELETE
      [] op = "notify_modify" -> NIM_MODIFY
      [] op = "notify_set_focus" -> NIM_SETFOCUS
      [] op = "notify_set_version" -> NIM_SETVERSION

\* The Win32 code an HRESULT carries (HRESULT_CODE: its low 16 bits).
HRESULT_CODE(hr) == hr % 65536

\* C5: a dispatch operation returns success exactly when the boundary call
\* returned true, and otherwise a failure carrying the error code the shell
\* left for that call; notify_delete of an identity with no live slot fails.
C5_ResultMirrorsBoundaryCall ==
    [][lastOp' \in DispatchOps =>
          /\ boundaryCalls' # <<>>
          /\ LET answer == Last(boundaryCalls')
             IN  /\ result'.kind = "Ok" <=> answer.ret # FALSE_
                 /\ result'.kind # "Ok" =>
                       /\ result'.kind = "Err"
                       /\ HRESULT_CODE(result'.code) = answer.err
          /\ (lastOp' = "notify_delete" /\ Identity(data) \notin slots)
                => result'.kind = "Err"]_vars

\* notify_delete has just failed on an identity with no live slot, with the
\* code the shell left, while another slot is live.
C5_Witness ==
    /\ lastOp = "notify_delete"
    /\ slots # {}
    /\ Identity(data) \notin slots
    /\ result.kind = "Err"
    /\ lastError = 1460
    /\ HRESULT_CODE(result.code) = 1460

\* C7: the size field holds the record's byte size in every reachable state.
C7_SizeFixed == data.cbSize = SizeOfNOTIFYICONDATAW

\* Builder calls and a dispatch have acted on the record.
C7_Witness ==
    /\ Len(calls) = MaxBuild
    /\ lastOp \in DispatchOps
    /\ data.uFlags # 0
    /\ data.cbSize = SizeOfNOTIFYICONDATAW

\* C10: a dispatch operation makes exactly one boundary call, with its own
\* operation code and the record as it stood, and leaves the record as it was,
\* whether the call succeeded or failed; a builder call makes none.
C10_OneBoundaryCall ==
    [][/\ lastOp' \in DispatchOps =>
             /\ Len(boundaryCalls') = 1
             /\ boundaryCalls'[1].dwMessage = OpCode(lastOp')
             /\ boundaryCalls'[1].lpData = data
             /\ data' = data
       /\ lastOp' \notin DispatchOps => boundaryCalls' = <<>>]_vars

\* A dispatch of a built record has just failed.
C10_Witness ==
    /\ lastOp = "notify_modify"
    /\ Len(calls) = MaxBuild
    /\ result.kind = "Err"
    /\ Len(boundaryCalls) = 1
    /\ boundaryCalls[1].lpData = data

====
